---- MODULE Spec2Model ----
(***************************************************************************)
(* The oneseismic query planner (core/src/plan.cpp): one call of           *)
(* one::mkschedule, from the request envelope and the manifest to the      *)
(* ordered list of task messages followed by the process header.           *)
(*                                                                         *)
(* Axes are numbered 0..2 as in the source; TLA+ sequences are 1-based, so *)
(* axis d of a tuple t is t[d + 1].  Positions in a vector (iterators) are *)
(* kept 0-based as offsets from begin().                                   *)
(***************************************************************************)
EXTENDS Integers, Sequences, FiniteSets, TLC

VARIABLES
    manifest,   \* the parsed manifest: [dimensions |-> three label arrays]
    task,       \* the unpacked request envelope (slice_task / curtain_task)
    task_size,  \* the task_size argument of mkschedule
    pc,         \* position inside mkschedule
    fetch,      \* the fetch descriptor under construction (out / fetch)
    i,          \* loop counter of the curtain phases A and B
    part,       \* locals of partition(): ids, ntasks, fst, i
    sched,      \* the vector of packed messages built so far (xs / sched)
    status,     \* "running", "ok", or the kind of the exception thrown
    output,     \* the list mkschedule returned (empty unless status = "ok")
    previous,   \* the outcomes of the earlier calls with the same arguments
    njobs       \* the jobs argument of a call of task_count on its own

vars == <<manifest, task, task_size, pc, fetch, i, part, sched, status, output,
          previous, njobs>>

-----------------------------------------------------------------------------
(* Bounds of the model *)

MaxExtent == 3      \* labels per manifest dimension: 1..MaxExtent
MaxFrag == 2        \* fragment shape per axis: 1..MaxFrag
MaxTraces == 2      \* curtain traces per request: 0..MaxTraces
MaxTaskSize == 3    \* task_size: 0..MaxTaskSize

MaxJobs == 8        \* jobs of a task_count call: 1..MaxJobs below each end of int
MaxCalls == 2       \* calls of mkschedule with the same arguments: 1..MaxCalls

IntBits == 16       \* width of int in the model (two's complement)

-----------------------------------------------------------------------------
(* Small helpers *)

Min(a, b) == IF a < b THEN a ELSE b

\* ceil(n / d) over the naturals, d >= 1
CeilDiv(n, d) == (n + d - 1) \div d

\* the half-open window [from, to) of a vector, offsets 0-based
Window(v, from, to) == SubSeq(v, from + 1, to)

RECURSIVE Concat(_)
Concat(ss) == IF ss = <<>> THEN <<>> ELSE Head(ss) \o Concat(Tail(ss))

RECURSIVE Product(_)
Product(s) == IF s = <<>> THEN 1 ELSE Head(s) * Product(Tail(s))

\* lhs < rhs, std::lexicographical_compare on two integer tuples
RECURSIVE lexicographical_compare(_, _)
lexicographical_compare(lhs, rhs) ==
    IF rhs = <<>> THEN FALSE
    ELSE IF lhs = <<>> THEN TRUE
    ELSE IF Head(lhs) < Head(rhs) THEN TRUE
    ELSE IF Head(rhs) < Head(lhs) THEN FALSE
    ELSE lexicographical_compare(Tail(lhs), Tail(rhs))

\* two's complement wrap-around of int arithmetic
WrapInt(n) ==
    LET m == n % (2 ^ IntBits)
    IN  IF m >= 2 ^ (IntBits - 1) THEN m - 2 ^ IntBits ELSE m

\* INT_MAX
IntMax == 2 ^ (IntBits - 1) - 1

\* integer division of C++, truncating towards zero (d > 0)
TruncDiv(n, d) == IF n >= 0 THEN n \div d ELSE -((-n) \div d)

-----------------------------------------------------------------------------
(* Geometry: one::gvt< 3 > (oneseismic/geometry.hpp)                        *)

\* geometry(dimensions, shape): cube extents from the label-array sizes
geometry(dimensions, shape) ==
    [ global_dims   |-> << Len(dimensions[1]),
                           Len(dimensions[2]),
                           Len(dimensions[3]) >>,
      fragment_dims |-> << shape[1], shape[2], shape[3] >> ]

fragment_shape(gvt) == gvt.fragment_dims
nsamples(gvt, d) == gvt.global_dims[d + 1]
fragment_count(gvt, d) ==
    CeilDiv(gvt.global_dims[d + 1], gvt.fragment_dims[d + 1])
nsamples_padded(gvt, d) == fragment_count(gvt, d) * gvt.fragment_dims[d + 1]

\* a coordinate at or beyond the extent of its dimension is out of range
in_range(gvt, p) ==
    \A a \in 1..Len(p) : p[a] < gvt.global_dims[a]

frag_id(gvt, p)  == [a \in 1..Len(p) |-> p[a] \div gvt.fragment_dims[a]]
to_local(gvt, p) == [a \in 1..Len(p) |-> p[a] % gvt.fragment_dims[a]]

\* the axes of a 3-d view other than d, in original order
other_axes(d) ==
    IF d = 0 THEN <<1, 2>> ELSE IF d = 1 THEN <<0, 2>> ELSE <<0, 1>>

\* squeeze(d): the two-axis view with axis d removed
squeeze(gvt, d) ==
    [ global_dims   |-> [k \in 1..2 |-> gvt.global_dims[other_axes(d)[k] + 1]],
      fragment_dims |-> [k \in 1..2 |-> gvt.fragment_dims[other_axes(d)[k] + 1]] ]

\* slice(d, pin): every fragment id on the plane axis d == pin, the two other
\* axes in ascending lexicographic order (the later axis varies fastest)
slice(gvt, d, pin) ==
    LET o1 == other_axes(d)[1]
        o2 == other_axes(d)[2]
        n1 == fragment_count(gvt, o1)
        n2 == fragment_count(gvt, o2)
        f  == pin \div gvt.fragment_dims[d + 1]
    IN  [ k \in 1..(n1 * n2) |->
            [ a \in 1..3 |->
                IF a = d + 1 THEN f
                ELSE IF a = o1 + 1 THEN (k - 1) \div n2
                ELSE (k - 1) % n2 ] ]

-----------------------------------------------------------------------------
(* Message model (oneseismic/messages.hpp)                                  *)

\* the fields every request and every fetch descriptor carries
common_task(t) ==
    [ pid              |-> t.pid,
      token            |-> t.token,
      guid             |-> t.guid,
      storage_endpoint |-> t.storage_endpoint,
      shape            |-> t.shape,
      shape_cube       |-> t.shape_cube,
      function         |-> t.function ]

\* one::slice_fetch(task): the request's fields and an empty id list
slice_fetch(t) ==
    [ common |-> common_task(t),
      dim    |-> t.dim,
      lineno |-> t.lineno,
      dim0s  |-> <<>>,
      dim1s  |-> <<>>,
      ids    |-> <<>> ]

\* one::curtain_fetch(task): the request's fields and an empty bucket list
curtain_fetch(t) ==
    [ common |-> common_task(t),
      dim    |-> 0,
      lineno |-> 0,
      dim0s  |-> t.dim0s,
      dim1s  |-> t.dim1s,
      ids    |-> <<>> ]

\* one::single: a fragment id and the local coordinates to read from it
single(id, coordinates) == [ id |-> id, coordinates |-> coordinates ]

\* Output::pack() of a fetch descriptor: one task message
pack_fetch(f) ==
    [ message |-> "task",
      common  |-> f.common,
      dim     |-> f.dim,
      lineno  |-> f.lineno,
      ids     |-> f.ids ]

\* process_header::pack(): the trailing header message
pack_header(head) ==
    [ message |-> "header",
      pid     |-> head.pid,
      ntasks  |-> head.ntasks,
      shape   |-> head.shape,
      index   |-> head.index ]

-----------------------------------------------------------------------------
(* plan.cpp: helpers                                                        *)

\* std::lower_bound with operator<: offset of the first element of the
\* sorted vector v that is not less than val, found by bisection
lower_bound(v, val) ==
    LET search[first \in 0..Len(v), len \in 0..Len(v)] ==
            IF len = 0 THEN first
            ELSE LET half == len \div 2
                     mid  == first + half
                 IN  IF v[mid + 1] < val
                     THEN search[mid + 1, len - half - 1]
                     ELSE search[first, half]
    IN  search[0, Len(v)]

\* std::find: offset of the first element equal to val, Len(v) when absent
find(v, val) ==
    IF \E k \in 1..Len(v) : v[k] = val
    THEN (CHOOSE k \in 1..Len(v) :
              v[k] = val /\ \A j \in 1..(k - 1) : v[j] # val) - 1
    ELSE Len(v)

\* task_count without the round-up: jobs / task_size
task_count_rounds_down(jobs, size) == TruncDiv(WrapInt(jobs), size)

\* task_count(jobs, task_size): the quotient as int arithmetic computes it
task_count(jobs, size) == TruncDiv(WrapInt(jobs + (size - 1)), size)

\* the indexof lambda of to_cartesian_inplace.  When x is larger than every
\* label, lower_bound returns end() and *itr reads one element past the
\* vector; past_end is the value that read produces.
indexof(labels, x, past_end) ==
    LET itr   == lower_bound(labels, x)
        deref == IF itr < Len(labels) THEN labels[itr + 1] ELSE past_end
    IN  IF deref # x
        THEN [ found |-> FALSE, index |-> -1 ]
        ELSE [ found |-> TRUE,  index |-> itr ]

\* to_cartesian_inplace(labels, xs): std::transform with indexof, the first
\* label that is not found throws one::not_found
to_cartesian_inplace(labels, xs, past_end) ==
    IF \E k \in 1..Len(xs) : ~ indexof(labels, xs[k], past_end).found
    THEN [ found |-> FALSE, xs |-> xs ]
    ELSE [ found |-> TRUE,
           xs    |-> [k \in 1..Len(xs) |-> indexof(labels, xs[k], past_end).index] ]

\* the 'less' lambda of the curtain build: bucket id < fragment id
less(lhs, rhs) == lexicographical_compare(lhs.id, rhs)

\* std::lower_bound with the 'less' lambda: offset of the first bucket of
\* the sorted bucket list whose id is not less than fid, found by bisection
lower_bound_less(ids, fid) ==
    LET search[first \in 0..Len(ids), len \in 0..Len(ids)] ==
            IF len = 0 THEN first
            ELSE LET half == len \div 2
                     mid  == first + half
                 IN  IF less(ids[mid + 1], fid)
                     THEN search[mid + 1, len - half - 1]
                     ELSE search[first, half]
    IN  search[0, Len(ids)]

\* the 'equal' lambda of the curtain build
equal(lhs, rhs) == \A k \in 1..Len(lhs) : lhs[k] = rhs[k]

-----------------------------------------------------------------------------
(* The inputs of one mkschedule call                                        *)

\* the k-th label of axis a: strictly ascending, with gaps between labels
Label(a, k) == 2 * k + a

\* manifest dimensions with the extents e: three strictly ascending arrays
Dimensions(e) == [a \in 1..3 |-> [k \in 1..e[a] |-> Label(a - 1, k)]]

Extents == [1..3 -> 1..MaxExtent]
FragmentShapes == [1..3 -> 1..MaxFrag]
TaskSizes == 0..MaxTaskSize

\* labels that are not in the array: below the first, right after the first
\* (between two labels, or beyond a single one), and beyond the last
AbsentLabels(labels) ==
    { labels[1] - 1, labels[1] + 1, labels[Len(labels)] + 1 }

Request(function, shape, shape_cube, dim, lineno, dim0s, dim1s) ==
    [ pid              |-> "pid-0",
      token            |-> "token-0",
      guid             |-> "guid-0",
      storage_endpoint |-> "https://storage",
      shape            |-> shape,
      shape_cube       |-> shape_cube,
      function         |-> function,
      dim              |-> dim,
      lineno           |-> lineno,
      dim0s            |-> dim0s,
      dim1s            |-> dim1s ]

\* slice requests: any dim in -1..3; a lineno in or around the labels of dim
SliceRequests(dims, shape) ==
    LET e == [a \in 1..3 |-> Len(dims[a])]
        linenos(dim) ==
            IF dim \in 0..2
            THEN { dims[dim + 1][k] : k \in 1..Len(dims[dim + 1]) }
                     \cup AbsentLabels(dims[dim + 1])
            ELSE { Label(0, 1) }
    IN  UNION { { Request("slice", shape, sc, dim, lineno, <<>>, <<>>) :
                    lineno \in linenos(dim), sc \in { <<>>, e } } :
                dim \in -1..3 }

\* xs with the element at position k replaced by x
Replace(xs, k, x) == [xs EXCEPT ![k] = x]

\* curtain requests: up to MaxTraces label pairs, in any order and with
\* repetitions, all present in the manifest or with one label absent
CurtainTraces(dims) ==
    LET valid ==
            UNION { { << [k \in 1..n |-> dims[1][c0[k]]],
                         [k \in 1..n |-> dims[2][c1[k]]] >> :
                        c0 \in [1..n -> 1..Len(dims[1])],
                        c1 \in [1..n -> 1..Len(dims[2])] } :
                    n \in 0..MaxTraces }
        broken0(t) ==
            { << Replace(t[1], k, x), t[2] >> :
                k \in 1..Len(t[1]), x \in AbsentLabels(dims[1]) }
        broken1(t) ==
            { << t[1], Replace(t[2], k, x) >> :
                k \in 1..Len(t[2]), x \in AbsentLabels(dims[2]) }
    IN  valid \cup UNION { broken0(t) \cup broken1(t) : t \in valid }

CurtainRequests(dims, shape) ==
    LET e == [a \in 1..3 |-> Len(dims[a])]
    IN  { Request("curtain", shape, e, 0, 0, t[1], t[2]) :
            t \in CurtainTraces(dims) }

\* a request for a function the planner has no plan for
OtherRequests(dims, shape) ==
    { Request("horizon", shape, [a \in 1..3 |-> Len(dims[a])], 0, 0, <<>>, <<>>) }

NoPartition == [ ids |-> <<>>, ntasks |-> 0, fst |-> 0, i |-> 0 ]
NoFetch == slice_fetch(Request("", <<>>, <<>>, 0, 0, <<>>, <<>>))

\* the requests for one function tag
Requests(function, dims, shape) ==
    IF function = "slice" THEN SliceRequests(dims, shape)
    ELSE IF function = "curtain" THEN CurtainRequests(dims, shape)
    ELSE OtherRequests(dims, shape)

\* the state at the entry of mkschedule, for requests of the given functions
InitFor(functions) ==
    /\ \E e \in Extents : manifest = [ dimensions |-> Dimensions(e) ]
    /\ \E shape \in FragmentShapes, function \in functions :
          task \in Requests(function, manifest.dimensions, shape)
    /\ task_size \in TaskSizes
    /\ pc = "mkschedule"
    /\ fetch = NoFetch
    /\ i = 0
    /\ part = NoPartition
    /\ sched = <<>>
    /\ status = "running"
    /\ output = <<>>
    /\ previous = <<>>
    /\ njobs = 0

Init == InitFor({ "slice", "curtain", "horizon" })

\* slice requests only
InitSlice == InitFor({ "slice" })

\* job counts and task sizes at both ends of the positive ints
JobCounts == (1..MaxJobs) \cup { IntMax - k : k \in 0..MaxJobs }
LargeTaskSizes == (1..MaxTaskSize) \cup { IntMax - k : k \in 0..MaxTaskSize }

\* the state at the entry of a call of task_count on its own
InitTaskCount ==
    /\ manifest = [ dimensions |-> Dimensions([a \in 1..3 |-> 1]) ]
    /\ task = Request("", <<>>, <<>>, 0, 0, <<>>, <<>>)
    /\ njobs \in JobCounts
    /\ task_size \in LargeTaskSizes
    /\ pc = "task_count"
    /\ fetch = NoFetch
    /\ i = 0
    /\ part = NoPartition
    /\ sched = <<>>
    /\ status = "running"
    /\ output = <<>>
    /\ previous = <<>>

-----------------------------------------------------------------------------
(* plan.cpp: the function plans                                             *)

\* an exception leaves mkschedule: the locals are destroyed, nothing returns
Throw(kind) ==
    /\ status' = kind
    /\ pc' = "done"
    /\ sched' = <<>>
    /\ UNCHANGED <<previous, njobs, manifest, task, task_size, fetch, i, part, output>>

\* the line number left global
local_lineno_global(pin, gvt, dim) == pin

\* the local line number of a slice inside its fragments
local_lineno(pin, gvt, dim) == pin % fragment_shape(gvt)[dim + 1]

\* the slice build with the line looked up by lower_bound, as the curtain
\* labels are, and only the end of the index refused
slice_build_nearest(t, m) ==
    LET out == slice_fetch(t)
        manifest_dimensions == m.dimensions
    IN  IF ~ (0 <= t.dim /\ t.dim < Len(manifest_dimensions))
        THEN [ error |-> "not_found", out |-> out ]
        ELSE
        LET index == manifest_dimensions[t.dim + 1]
            itr   == lower_bound(index, t.lineno)
        IN  IF itr = Len(index)
            THEN [ error |-> "not_found", out |-> out ]
            ELSE
            LET gvt == geometry(manifest_dimensions, t.shape)
            IN  [ error |-> "",
                  out   |-> [ out EXCEPT
                                !.lineno = local_lineno(itr, gvt, t.dim),
                                !.ids = slice(gvt, t.dim, itr) ] ]

\* schedule_maker< slice_task, slice_fetch >::build
slice_build(t, m) ==
    LET out == slice_fetch(t)
        manifest_dimensions == m.dimensions
    IN  IF ~ (0 <= t.dim /\ t.dim < Len(manifest_dimensions))
        THEN [ error |-> "not_found", out |-> out ]
        ELSE
        LET index == manifest_dimensions[t.dim + 1]
            itr   == find(index, t.lineno)
        IN  IF itr = Len(index)
            THEN [ error |-> "not_found", out |-> out ]
            ELSE
            LET pin == itr
                gvt == geometry(manifest_dimensions, t.shape)
                shape_cube ==
                    out.common.shape_cube
                        \o [a \in 1..Len(manifest_dimensions) |->
                                Len(manifest_dimensions[a])]
            IN  [ error |-> "",
                  out   |-> [ out EXCEPT
                                !.common.shape_cube = shape_cube,
                                !.lineno = local_lineno(pin, gvt, t.dim),
                                !.ids = slice(gvt, t.dim, pin) ] ]

\* the slice header with the header itself counted among the tasks
slice_header_counts_itself(t, m, ntasks) ==
    LET mdims == m.dimensions
        gvt2  == squeeze(geometry(mdims, t.shape), t.dim)
        kept  == other_axes(t.dim)
    IN  [ pid    |-> t.pid,
          ntasks |-> ntasks + 1,
          shape  |-> [k \in 1..2 |-> nsamples(gvt2, k - 1)],
          index  |-> [k \in 1..(Len(mdims) - 1) |-> mdims[kept[k] + 1]] ]

\* the slice header with the fragment-padded sample counts as its shape
slice_header_padded(t, m, ntasks) ==
    LET mdims == m.dimensions
        gvt2  == squeeze(geometry(mdims, t.shape), t.dim)
        kept  == other_axes(t.dim)
    IN  [ pid    |-> t.pid,
          ntasks |-> ntasks,
          shape  |-> [k \in 1..2 |-> nsamples_padded(gvt2, k - 1)],
          index  |-> [k \in 1..(Len(mdims) - 1) |-> mdims[kept[k] + 1]] ]

\* schedule_maker< slice_task, slice_fetch >::header
slice_header(t, m, ntasks) ==
    LET mdims == m.dimensions
        gvt   == geometry(mdims, t.shape)
        gvt2  == squeeze(gvt, t.dim)
        fs2   == fragment_shape(gvt2)
        kept  == other_axes(t.dim)
    IN  [ pid    |-> t.pid,
          ntasks |-> ntasks,
          shape  |-> [k \in 1..Len(fs2) |-> nsamples(gvt2, k - 1)],
          index  |-> [k \in 1..(Len(mdims) - 1) |-> mdims[kept[k] + 1]] ]

\* what the read past the end of a label array may produce.  indexof only
\* compares it with the label looked up: -1 is never a label, last + 1 is a
\* label a request can ask for beyond the array
PastEnd(labels) == { -1, labels[Len(labels)] + 1 }

\* phase A without the 'equal' test: a column is inserted again whenever the
\* lower bound is inside the list
insert_column_again(ids, fid, zfrags) ==
    LET itr == lower_bound_less(ids, fid)
    IN  Window(ids, 0, itr)
            \o [z \in 1..zfrags |-> single(<<fid[1], fid[2], z - 1>>, <<>>)]
            \o Window(ids, itr, Len(ids))

\* phase A with the new column pushed to the back of the list
insert_column_at_end(ids, fid, zfrags) ==
    LET itr == lower_bound_less(ids, fid)
    IN  IF itr = Len(ids) \/ ~ equal(ids[itr + 1].id, fid)
        THEN ids \o [z \in 1..zfrags |-> single(<<fid[1], fid[2], z - 1>>, <<>>)]
        ELSE ids

\* curtain build, phase A, one trace: make the buckets of the column of fid
\* unless they are there already
insert_column(ids, fid, zfrags) ==
    LET itr == lower_bound_less(ids, fid)
    IN  IF itr = Len(ids) \/ ~ equal(ids[itr + 1].id, fid)
        THEN Window(ids, 0, itr)
                 \o [z \in 1..zfrags |-> single(<<fid[1], fid[2], z - 1>>, <<>>)]
                 \o Window(ids, itr, Len(ids))
        ELSE ids

\* phase B with the two local coordinates swapped
assign_coordinate_swapped(ids, fid, lid, zfrags) ==
    LET itr == lower_bound_less(ids, fid)
    IN  [ k \in 1..Len(ids) |->
            IF itr < k /\ k <= itr + zfrags
            THEN single(ids[k].id, Append(ids[k].coordinates, <<lid[2], lid[1]>>))
            ELSE ids[k] ]

\* phase B with a coordinate stored once per bucket, repetitions dropped
assign_coordinate_once(ids, fid, lid, zfrags) ==
    LET itr == lower_bound_less(ids, fid)
        had(k) == \E n \in 1..Len(ids[k].coordinates) :
                      ids[k].coordinates[n] = <<lid[1], lid[2]>>
    IN  [ k \in 1..Len(ids) |->
            IF itr < k /\ k <= itr + zfrags /\ ~ had(k)
            THEN single(ids[k].id, Append(ids[k].coordinates, <<lid[1], lid[2]>>))
            ELSE ids[k] ]

\* curtain build, phase B, one trace: append the local coordinate to the
\* zfrags buckets starting at the lower bound of fid
assign_coordinate(ids, fid, lid, zfrags) ==
    LET itr == lower_bound_less(ids, fid)
    IN  [ k \in 1..Len(ids) |->
            IF itr < k /\ k <= itr + zfrags
            THEN single(ids[k].id, Append(ids[k].coordinates, <<lid[1], lid[2]>>))
            ELSE ids[k] ]

\* the curtain header with the labels of the second axis left as labels
curtain_header_labels(t, m, ntasks, past0, past1) ==
    LET mdims  == m.dimensions
        gvt    == geometry(mdims, t.shape)
        zpad   == nsamples_padded(gvt, 2)
        index0 == to_cartesian_inplace(mdims[1], t.dim0s, past0)
    IN  [ error |-> IF index0.found THEN "" ELSE "not_found",
          head  |-> [ pid    |-> t.pid,
                      ntasks |-> ntasks,
                      shape  |-> << Len(t.dim0s), zpad >>,
                      index  |-> << index0.xs, t.dim1s, mdims[Len(mdims)] >> ] ]

\* schedule_maker< curtain_task, curtain_fetch >::header
curtain_header(t, m, ntasks, past0, past1) ==
    LET mdims  == m.dimensions
        gvt    == geometry(mdims, t.shape)
        zpad   == nsamples_padded(gvt, 2)
        index0 == to_cartesian_inplace(mdims[1], t.dim0s, past0)
        index1 == to_cartesian_inplace(mdims[2], t.dim1s, past1)
    IN  [ error |-> IF index0.found /\ index1.found THEN "" ELSE "not_found",
          head  |-> [ pid    |-> t.pid,
                      ntasks |-> ntasks,
                      shape  |-> << Len(t.dim0s), zpad >>,
                      index  |-> << index0.xs, index1.xs, mdims[Len(mdims)] >> ] ]

\* the window assigned into a descriptor that starts from an empty cube
assign_ids_clears_cube(out, ids, fst, last) ==
    [ out EXCEPT !.ids = Window(ids, fst, last), !.common.shape_cube = <<>> ]

\* output.ids.assign(fst, last): the descriptor with its ids narrowed to the
\* window [fst, last) of the copy of the original ids
assign_ids(out, ids, fst, last) == [ out EXCEPT !.ids = Window(ids, fst, last) ]

\* the window taken one element short
window_end_short(fst, size, lst) == Min(fst + size - 1, lst)

\* the upper end of the next window of partition()
window_end(fst, size, lst) == Min(fst + size, lst)

-----------------------------------------------------------------------------
(* Actions                                                                  *)

\* the dispatcher with the slice plan as the default for any other function
Dispatch_default_slice ==
    /\ pc = "mkschedule"
    /\ pc' = IF task.function = "curtain" THEN "curtain_build" ELSE "slice_build"
    /\ UNCHANGED <<previous, njobs, manifest, task, task_size, fetch, i, part,
                   sched, status, output>>

\* one::mkschedule: read 'function' and pick the plan; schedule() unpacks
\* the request and parses the manifest
Dispatch ==
    /\ pc = "mkschedule"
    /\ IF task.function = "slice"
       THEN /\ pc' = "slice_build"
            /\ UNCHANGED <<previous, njobs, manifest, task, task_size, fetch, i, part, sched,
                           status, output>>
       ELSE IF task.function = "curtain"
       THEN /\ pc' = "curtain_build"
            /\ UNCHANGED <<previous, njobs, manifest, task, task_size, fetch, i, part, sched,
                           status, output>>
       ELSE Throw("logic_error")

\* build() of the slice plan
SliceBuild ==
    /\ pc = "slice_build"
    /\ LET r == slice_build(task, manifest)
       IN  IF r.error # ""
           THEN Throw(r.error)
           ELSE /\ fetch' = r.out
                /\ pc' = "partition"
                /\ UNCHANGED <<previous, njobs, manifest, task, task_size, i, part, sched,
                               status, output>>

\* build() of the curtain plan up to the loops: labels to cartesian indices
CurtainBuild ==
    /\ pc = "curtain_build"
    /\ \E past0 \in PastEnd(manifest.dimensions[1]),
          past1 \in PastEnd(manifest.dimensions[2]) :
        LET out   == curtain_fetch(task)
            dim0s == to_cartesian_inplace(manifest.dimensions[1], out.dim0s, past0)
            dim1s == to_cartesian_inplace(manifest.dimensions[2], out.dim1s, past1)
        IN  IF ~ dim0s.found \/ ~ dim1s.found
            THEN Throw("not_found")
            ELSE /\ fetch' = [ out EXCEPT !.dim0s = dim0s.xs, !.dim1s = dim1s.xs ]
                 /\ i' = 0
                 /\ pc' = IF Len(out.dim0s) = 0 THEN "partition"
                          ELSE "curtain_phase_a"
                 /\ UNCHANGED <<previous, njobs, manifest, task, task_size, part, sched,
                                status, output>>

\* the first loop left after its first trace, the second loop started early
CurtainPhaseA_one_trace ==
    /\ pc = "curtain_phase_a"
    /\ i < Len(fetch.dim0s)
    /\ LET gvt       == geometry(manifest.dimensions, task.shape)
           zfrags    == fragment_count(gvt, 2)
           top_point == << fetch.dim0s[i + 1], fetch.dim1s[i + 1], 0 >>
       IN  IF ~ in_range(gvt, top_point)
           THEN Throw("out_of_range")
           ELSE /\ fetch' = [ fetch EXCEPT !.ids =
                                insert_column(@, frag_id(gvt, top_point), zfrags) ]
                /\ i' = 0
                /\ pc' = "curtain_phase_b"
                /\ UNCHANGED <<previous, njobs, manifest, task, task_size,
                               part, sched, status, output>>

\* one iteration of the first loop of the curtain build
CurtainPhaseA ==
    /\ pc = "curtain_phase_a"
    /\ i < Len(fetch.dim0s)
    /\ LET gvt       == geometry(manifest.dimensions, task.shape)
           zfrags    == fragment_count(gvt, 2)
           top_point == << fetch.dim0s[i + 1], fetch.dim1s[i + 1], 0 >>
       IN  IF ~ in_range(gvt, top_point)
           THEN Throw("out_of_range")
           ELSE /\ fetch' = [ fetch EXCEPT !.ids =
                                insert_column(@, frag_id(gvt, top_point), zfrags) ]
                /\ i' = IF i + 1 < Len(fetch.dim0s) THEN i + 1 ELSE 0
                /\ pc' = IF i + 1 < Len(fetch.dim0s) THEN "curtain_phase_a"
                         ELSE "curtain_phase_b"
                /\ UNCHANGED <<previous, njobs, manifest, task, task_size, part, sched,
                               status, output>>

\* one iteration of the second loop of the curtain build
CurtainPhaseB ==
    /\ pc = "curtain_phase_b"
    /\ i < Len(fetch.dim0s)
    /\ LET gvt    == geometry(manifest.dimensions, task.shape)
           zfrags == fragment_count(gvt, 2)
           cp     == << fetch.dim0s[i + 1], fetch.dim1s[i + 1], 0 >>
           fid    == frag_id(gvt, cp)
           lid    == to_local(gvt, cp)
       IN  /\ fetch' = [ fetch EXCEPT !.ids =
                           assign_coordinate(@, fid, lid, zfrags) ]
           /\ i' = IF i + 1 < Len(fetch.dim0s) THEN i + 1 ELSE 0
           /\ pc' = IF i + 1 < Len(fetch.dim0s) THEN "curtain_phase_b"
                    ELSE "partition"
           /\ UNCHANGED <<previous, njobs, manifest, task, task_size, part, sched,
                          status, output>>

\* partition() up to its loop: the task_size check and task_count
PartitionBegin ==
    /\ pc = "partition"
    /\ IF task_size < 1
       THEN Throw("logic_error")
       ELSE LET ids == fetch.ids
                x   == task_count(Len(ids), task_size)
            IN  IF x = 0
                THEN \* assert(x != 0) aborts unless compiled out, then x <= 0.
                     \* x = 0 means no trace, a path without choices: a
                     \* process that is at its second call has passed the
                     \* assert once, so it is compiled out
                     \/ previous = <<>> /\ Throw("abort")
                     \/ Throw("runtime_error")
                ELSE IF x < 0
                THEN Throw("runtime_error")
                ELSE /\ part' = [ ids |-> ids, ntasks |-> x, fst |-> 0, i |-> 0 ]
                     /\ pc' = "partition_loop"
                     /\ UNCHANGED <<previous, njobs, manifest, task, task_size, fetch, i,
                                    sched, status, output>>

\* one iteration of the loop of partition(): narrow ids, pack, append
PartitionStep ==
    /\ pc = "partition_loop"
    /\ part.i < part.ntasks
    /\ LET last == window_end(part.fst, task_size, Len(part.ids))
           next == assign_ids(fetch, part.ids, part.fst, last)
       IN  /\ fetch' = next
           /\ part' = [ part EXCEPT !.fst = last, !.i = @ + 1 ]
           /\ sched' = Append(sched, pack_fetch(next))
           /\ pc' = IF part.i + 1 < part.ntasks THEN "partition_loop"
                    ELSE "header"
           /\ UNCHANGED <<previous, njobs, manifest, task, task_size, i, status, output>>

\* schedule(): the header of the slice plan goes last, the list is returned
SliceHeader ==
    /\ pc = "header"
    /\ task.function = "slice"
    /\ LET ntasks == Len(sched)
           head   == slice_header(task, manifest, ntasks)
       IN  /\ sched' = Append(sched, pack_header(head))
           /\ output' = sched'
           /\ status' = "ok"
           /\ pc' = "done"
           /\ UNCHANGED <<previous, njobs, manifest, task, task_size, fetch, i, part>>

\* schedule(): the header of the curtain plan goes last, the list is returned
CurtainHeader ==
    /\ pc = "header"
    /\ task.function = "curtain"
    /\ \E past0 \in PastEnd(manifest.dimensions[1]),
          past1 \in PastEnd(manifest.dimensions[2]) :
        LET ntasks == Len(sched)
            r      == curtain_header(task, manifest, ntasks, past0, past1)
        IN  IF r.error # ""
            THEN Throw(r.error)
            ELSE /\ sched' = Append(sched, pack_header(r.head))
                 /\ output' = sched'
                 /\ status' = "ok"
                 /\ pc' = "done"
                 /\ UNCHANGED <<previous, njobs, manifest, task, task_size, fetch, i, part>>

\* the caller calls mkschedule once more with the same bytes and task_size:
\* the outcome of the finished call is kept for comparison, all locals of
\* the new call are fresh.  An aborted process makes no further call.
CallAgain ==
    /\ pc = "done"
    /\ status # "abort"
    /\ Len(previous) < MaxCalls - 1
    /\ previous' = Append(previous, [ status |-> status, output |-> output ])
    /\ pc' = "mkschedule"
    /\ fetch' = NoFetch
    /\ i' = 0
    /\ part' = NoPartition
    /\ sched' = <<>>
    /\ status' = "running"
    /\ output' = <<>>
    /\ UNCHANGED <<njobs, manifest, task, task_size>>

Next ==
    \/ Dispatch
    \/ SliceBuild
    \/ CurtainBuild
    \/ CurtainPhaseA
    \/ CurtainPhaseB
    \/ PartitionBegin
    \/ PartitionStep
    \/ SliceHeader
    \/ CurtainHeader

Spec == Init /\ [][Next]_vars

\* the steps of a slice request: the shared pipeline with the slice plan
NextSlice ==
    \/ Dispatch
    \/ SliceBuild
    \/ PartitionBegin
    \/ PartitionStep
    \/ SliceHeader

SpecSlice == InitSlice /\ [][NextSlice]_vars

\* task_count(njobs, task_size) called on its own: the count is left in
\* part.ntasks, as partition() keeps it
TaskCount ==
    /\ pc = "task_count"
    /\ LET x == task_count(njobs, task_size)
       IN  IF x = 0
           THEN Throw("abort") \/ Throw("runtime_error")
           ELSE IF x < 0
           THEN Throw("runtime_error")
           ELSE /\ part' = [ part EXCEPT !.ntasks = x ]
                /\ status' = "ok"
                /\ pc' = "done"
                /\ UNCHANGED <<previous, njobs, manifest, task, task_size,
                               fetch, i, sched, output>>

NextTaskCount == TaskCount

SpecTaskCount == InitTaskCount /\ [][NextTaskCount]_vars

\* repeated calls with the same arguments
NextTwice ==
    \/ Dispatch
    \/ SliceBuild
    \/ CurtainBuild
    \/ CurtainPhaseA
    \/ CurtainPhaseB
    \/ PartitionBegin
    \/ PartitionStep
    \/ SliceHeader
    \/ CurtainHeader
    \/ CallAgain

SpecTwice == Init /\ [][NextTwice]_vars

-----------------------------------------------------------------------------
TypeOK ==
    /\ pc \in { "mkschedule", "slice_build", "curtain_build", "curtain_phase_a",
                "curtain_phase_b", "partition", "partition_loop", "header",
                "task_count", "done" }
    /\ status \in { "running", "ok", "not_found", "logic_error",
                    "runtime_error", "out_of_range", "abort" }

-----------------------------------------------------------------------------
(* Vocabulary of the properties, stated on the inputs and the output        *)

Done == pc = "done"
Returned == pc = "done" /\ status = "ok"

IsSlice == task.function = "slice"
IsCurtain == task.function = "curtain"

LabelSet(labels) == { labels[k] : k \in 1..Len(labels) }

\* the position of a label in its array, from 0
PositionOf(labels, x) == (CHOOSE k \in 1..Len(labels) : labels[k] = x) - 1

Extent(a) == Len(manifest.dimensions[a + 1])
FragmentsAlong(a) == CeilDiv(Extent(a), task.shape[a + 1])

ValidSlice ==
    /\ IsSlice
    /\ task.dim \in 0..2
    /\ task.lineno \in LabelSet(manifest.dimensions[task.dim + 1])

ValidCurtain ==
    /\ IsCurtain
    /\ \A k \in 1..Len(task.dim0s) :
          /\ task.dim0s[k] \in LabelSet(manifest.dimensions[1])
          /\ task.dim1s[k] \in LabelSet(manifest.dimensions[2])

\* the task messages of a list of messages, in order
RECURSIVE TaskMessages(_)
TaskMessages(msgs) ==
    IF msgs = <<>> THEN <<>>
    ELSE IF Head(msgs).message = "task"
         THEN <<Head(msgs)>> \o TaskMessages(Tail(msgs))
         ELSE TaskMessages(Tail(msgs))

\* the ids of all task messages of a list, concatenated in emission order
EmittedIds(msgs) ==
    LET ts == TaskMessages(msgs)
    IN  Concat([k \in 1..Len(ts) |-> ts[k].ids])

StrictlyAscending(tuples) ==
    \A k \in 1..(Len(tuples) - 1) :
        lexicographical_compare(tuples[k], tuples[k + 1])

-----------------------------------------------------------------------------
(* C1: whenever mkschedule returns, the list is not empty, its last element *)
(* is the process header, every element before it is a task message, the   *)
(* header's ntasks is the length of the list minus one and its pid is the   *)
(* pid of the request.                                                      *)
C1_HeaderLast ==
    Returned =>
        /\ Len(output) >= 1
        /\ output[Len(output)].message = "header"
        /\ \A k \in 1..(Len(output) - 1) : output[k].message = "task"
        /\ output[Len(output)].ntasks = Len(output) - 1
        /\ output[Len(output)].pid = task.pid

\* a call returned several task messages followed by the header
C1_Witness ==
    /\ Returned
    /\ Len(output) >= 3
    /\ task_size >= 2

(* C2: a valid slice request on axis d with task_size T >= 1 returns        *)
(* ceil(P / T) task messages, P the product of the fragment counts of the   *)
(* two other axes, and the header is the element right after them.          *)
C2_SliceCount ==
    (Done /\ ValidSlice /\ task_size >= 1) =>
        LET o == other_axes(task.dim)
            P == FragmentsAlong(o[1]) * FragmentsAlong(o[2])
            count == CeilDiv(P, task_size)
        IN  /\ status = "ok"
            /\ Len(TaskMessages(output)) = count
            /\ Len(output) = count + 1
            /\ output[count + 1].message = "header"

\* a slice through several fragments, the last task not full
C2_Witness ==
    /\ Returned
    /\ ValidSlice
    /\ task_size = 3
    /\ Len(output) = 3
    /\ FragmentsAlong(other_axes(task.dim)[1])
           * FragmentsAlong(other_axes(task.dim)[2]) = 4

-----------------------------------------------------------------------------
(* Vocabulary of the curtain properties                                     *)

\* the cartesian (x, y) pairs of the traces of a valid curtain request
InputCartesian ==
    { << PositionOf(manifest.dimensions[1], task.dim0s[k]),
         PositionOf(manifest.dimensions[2], task.dim1s[k]) >> :
        k \in 1..Len(task.dim0s) }

\* the distinct fragment columns (fx, fy) the traces fall in
Columns ==
    { << c[1] \div task.shape[1], c[2] \div task.shape[2] >> :
        c \in InputCartesian }

\* one bucket id per column and fragment along axis 2
ExpectedBuckets ==
    { << c[1], c[2], z >> : c \in Columns, z \in 0..(FragmentsAlong(2) - 1) }

BucketIds(ids) == [k \in 1..Len(ids) |-> ids[k].id]

BucketsAreTheColumns(ids) ==
    /\ Len(ids) = Cardinality(Columns) * FragmentsAlong(2)
    /\ { ids[k].id : k \in 1..Len(ids) } = ExpectedBuckets
    /\ \A j, k \in 1..Len(ids) : j # k => ids[j].id # ids[k].id

\* every coordinate of the bucket is a local coordinate of an input pair
\* that lies in the bucket's own column
CoordinatesBelong(b) ==
    \A n \in 1..Len(b.coordinates) :
        LET lx == b.coordinates[n][1]
            ly == b.coordinates[n][2]
        IN  /\ lx < task.shape[1]
            /\ ly < task.shape[2]
            /\ << b.id[1] * task.shape[1] + lx,
                  b.id[2] * task.shape[2] + ly >> \in InputCartesian

AllBuckets(ids) == \A k \in 1..Len(ids) : CoordinatesBelong(ids[k])

-----------------------------------------------------------------------------
(* C3: for a valid curtain request the bucket list the first loop builds    *)
(* has exactly U * fragment_count(axis 2) entries, U the number of distinct *)
(* fragment columns of the input, one per (fx, fy, fz) and none repeated;   *)
(* with task_size T >= 1 the call emits ceil(|ids| / T) task messages that  *)
(* together carry those |ids| buckets.                                      *)
C3_CurtainCount ==
    ValidCurtain =>
        /\ pc \in { "curtain_phase_b", "partition" }
              => BucketsAreTheColumns(fetch.ids)
        /\ pc \in { "partition_loop", "header" } \/ Returned
              => BucketsAreTheColumns(part.ids)
        /\ (Done /\ task_size >= 1) =>
              LET n == Cardinality(Columns) * FragmentsAlong(2)
              IN  /\ Len(TaskMessages(output)) = CeilDiv(n, task_size)
                  /\ Len(EmittedIds(output)) = n

\* two different traces in one column, three fragments deep, two tasks
C3_Witness ==
    /\ Returned
    /\ ValidCurtain
    /\ Cardinality(InputCartesian) = 2
    /\ Cardinality(Columns) = 1
    /\ FragmentsAlong(2) = 3
    /\ Len(output) = 3

(* C4: in a curtain request the bucket list is strictly lexicographically   *)
(* ascending after every insertion of the first loop and ever after, and so *)
(* are the ids of the emitted task messages concatenated in emission order, *)
(* whatever the order of the traces and whatever they repeat.               *)
C4_CurtainSorted ==
    IsCurtain =>
        /\ StrictlyAscending(BucketIds(fetch.ids))
        /\ StrictlyAscending(BucketIds(part.ids))
        /\ StrictlyAscending(BucketIds(EmittedIds(sched)))
        /\ StrictlyAscending(BucketIds(EmittedIds(output)))

\* the second trace lies in a column before the column of the first
C4_Witness ==
    /\ Returned
    /\ ValidCurtain
    /\ Len(task.dim0s) = 2
    /\ Len(output) >= 3
    /\ LET col(k) ==
              << PositionOf(manifest.dimensions[1], task.dim0s[k]) \div task.shape[1],
                 PositionOf(manifest.dimensions[2], task.dim1s[k]) \div task.shape[2] >>
       IN  lexicographical_compare(col(2), col(1))

(* C5: partition of N >= 1 ids with task_size T >= 1: message i (from 0)    *)
(* carries the window [i*T, min((i+1)*T, N)) of the original ids; there are *)
(* ceil(N / T) messages, all but the last with exactly T ids, the last with *)
(* 1..T, and the windows concatenated are the original list.                *)
C5_PartitionWindows ==
    /\ (pc = "partition_loop" /\ part.i = 0) => part.ids = fetch.ids
    /\ (pc \in { "partition_loop", "header" } \/ Returned) =>
          LET N  == Len(part.ids)
              T  == task_size
              ts == TaskMessages(sched)
          IN  /\ N >= 1 /\ T >= 1
              /\ Len(ts) = part.i
              /\ \A k \in 1..Len(ts) :
                    ts[k].ids = Window(part.ids, (k - 1) * T,
                                       IF k * T < N THEN k * T ELSE N)
              /\ pc # "partition_loop" =>
                    /\ Len(ts) = CeilDiv(N, T)
                    /\ \A k \in 1..(Len(ts) - 1) : Len(ts[k].ids) = T
                    /\ Len(ts[Len(ts)].ids) \in 1..T
                    /\ EmittedIds(sched) = part.ids

\* nine ids in tasks of two: four full windows and a last one of one id
C5_Witness ==
    /\ Returned
    /\ Len(part.ids) = 9
    /\ task_size = 2
    /\ Len(output) = 6

(* C6: for a valid curtain request every local coordinate (lx, ly) stored   *)
(* in a bucket with id (fx, fy, fz) has lx < s0 and ly < s1, and            *)
(* (fx*s0 + lx, fy*s1 + ly) is one of the input cartesian pairs: a bucket   *)
(* holds coordinates of its own column only.                                *)
C6_CurtainLocalCoordinates ==
    ValidCurtain =>
        /\ AllBuckets(fetch.ids)
        /\ AllBuckets(part.ids)
        /\ AllBuckets(EmittedIds(sched))
        /\ AllBuckets(EmittedIds(output))

\* two columns with coordinates, one of them off the fragment's diagonal
C6_Witness ==
    /\ Returned
    /\ ValidCurtain
    /\ LET ids == EmittedIds(output)
       IN  \E j, k \in 1..Len(ids) :
              /\ << ids[j].id[1], ids[j].id[2] >> # << ids[k].id[1], ids[k].id[2] >>
              /\ ids[j].coordinates # <<>>
              /\ ids[k].coordinates # <<>>
              /\ ids[j].coordinates[1][1] # ids[j].coordinates[1][2]

(* C7: a valid slice request on axis d whose lineno is at position pin of   *)
(* the labels of d emits lineno = pin % shape[d]; its ids are every         *)
(* fragment id whose component d is pin / shape[d], the two other           *)
(* components in ascending lexicographic order, so f[d]*shape[d] + lineno   *)
(* = pin for each id f.                                                     *)
C7_SliceLocal ==
    ValidSlice =>
        LET d    == task.dim
            s    == task.shape[d + 1]
            pin  == PositionOf(manifest.dimensions[d + 1], task.lineno)
            plane ==
                { f \in [1..3 -> 0..(MaxExtent - 1)] :
                    /\ f[d + 1] = pin \div s
                    /\ \A a \in 0..2 : a # d => f[a + 1] < FragmentsAlong(a) }
            Right(lineno, ids) ==
                /\ lineno = pin % s
                /\ { ids[k] : k \in 1..Len(ids) } = plane
                /\ StrictlyAscending(ids)
                /\ \A k \in 1..Len(ids) : ids[k][d + 1] * s + lineno = pin
        IN  /\ pc = "partition" => Right(fetch.lineno, fetch.ids)
            /\ (Done /\ task_size >= 1) =>
                  /\ status = "ok"
                  /\ Right(output[1].lineno, EmittedIds(output))
                  /\ \A k \in 1..(Len(output) - 1) :
                        /\ output[k].lineno = pin % s
                        /\ output[k].dim = d

\* the third line of an axis tiled by two: fragment 1, local line 0
C7_Witness ==
    /\ Returned
    /\ ValidSlice
    /\ PositionOf(manifest.dimensions[task.dim + 1], task.lineno) = 2
    /\ task.shape[task.dim + 1] = 2
    /\ Len(EmittedIds(output)) = 4
    /\ output[1].lineno = 0

-----------------------------------------------------------------------------
(* C8: every header mkschedule emits, for slice and curtain alike, has      *)
(* product(shape) > 0, as many index arrays as shape entries, and           *)
(* len(index[i]) = shape[i] on every axis i.                                *)
C8_HeaderShapeIndex ==
    Returned =>
        LET head == output[Len(output)]
        IN  /\ Product(head.shape) > 0
            /\ Len(head.index) = Len(head.shape)
            /\ \A a \in 1..Len(head.shape) : Len(head.index[a]) = head.shape[a]

(* C9: a slice request whose dim is outside 0..2, or whose lineno is not a  *)
(* label of manifest.dimensions[dim], fails with not_found: the call never  *)
(* gets past build(), no task message and no header is ever made, and       *)
(* nothing is returned.                                                     *)
C9_SliceNotFound ==
    (IsSlice /\ ~ ValidSlice) =>
        /\ pc \in { "mkschedule", "slice_build", "done" }
        /\ sched = <<>>
        /\ output = <<>>
        /\ Done => status = "not_found"

\* a lineno between two labels of a valid dim was refused
C9_Witness ==
    /\ Done
    /\ IsSlice
    /\ status = "not_found"
    /\ task.dim \in 0..2
    /\ LET labels == manifest.dimensions[task.dim + 1]
       IN  /\ Len(labels) >= 2
           /\ labels[1] < task.lineno
           /\ task.lineno < labels[2]

(* C10: to_cartesian replaces every label by its position in the strictly  *)
(* ascending array when all are present, and fails with not_found when any  *)
(* label is absent, be it smaller than every label, between two labels or   *)
(* larger than every label: a curtain request with such a label never gets  *)
(* past the label resolution, fails with not_found and returns nothing.     *)
C10_CurtainNotFound ==
    /\ (IsCurtain /\ ValidCurtain /\ pc \notin { "mkschedule", "curtain_build" }) =>
          /\ fetch.dim0s = [k \in 1..Len(task.dim0s) |->
                               PositionOf(manifest.dimensions[1], task.dim0s[k])]
          /\ fetch.dim1s = [k \in 1..Len(task.dim1s) |->
                               PositionOf(manifest.dimensions[2], task.dim1s[k])]
    /\ (IsCurtain /\ ~ ValidCurtain) =>
          /\ pc \in { "mkschedule", "curtain_build", "done" }
          /\ output = <<>>
          /\ Done => status = "not_found"

-----------------------------------------------------------------------------
(* C11: mkschedule fails with a logic error and yields no message when      *)
(* task_size < 1, the request being a valid slice or curtain request        *)
(* otherwise, and when the function of the request is neither slice nor     *)
(* curtain: no plan is the default, neither build() is ever entered.        *)
C11_LogicError ==
    LET unknown == task.function \notin { "slice", "curtain" }
        refused == \/ task_size < 1 /\ (ValidSlice \/ ValidCurtain)
                   \/ unknown
    IN  refused =>
            /\ sched = <<>>
            /\ output = <<>>
            /\ Done => status = "logic_error"
            /\ unknown => pc \in { "mkschedule", "done" }

\* a curtain request with traces was built and then refused for task_size 0
C11_Witness ==
    /\ Done
    /\ ValidCurtain
    /\ Len(task.dim0s) >= 1
    /\ task_size = 0
    /\ fetch.ids # <<>>
    /\ status = "logic_error"

-----------------------------------------------------------------------------
\* the outcome of a finished call
Outcome == [ status |-> status, output |-> output ]

\* no curtain label of the request is larger than every label of its axis
NoLabelPastEnd ==
    IsCurtain =>
        \A k \in 1..Len(task.dim0s) :
            /\ task.dim0s[k] <=
                   manifest.dimensions[1][Len(manifest.dimensions[1])]
            /\ task.dim1s[k] <=
                   manifest.dimensions[2][Len(manifest.dimensions[2])]

(* C12: mkschedule is deterministic: a call with the same request bytes and *)
(* the same task_size as an earlier call ends as the earlier call did, with *)
(* the same error or with the same list of messages, element by element.    *)
C12_Deterministic ==
    (Done /\ previous # <<>>) =>
        \A k \in 1..Len(previous) : previous[k] = Outcome

\* the same, for the requests that never look up a label beyond the last
DeterministicWithoutPastEnd ==
    (Done /\ previous # <<>> /\ NoLabelPastEnd) =>
        \A k \in 1..Len(previous) : previous[k] = Outcome

\* a second call returned the list of the first, several messages long
SecondCallReturned ==
    /\ Returned
    /\ previous # <<>>
    /\ previous[1] = Outcome
    /\ Len(output) >= 3

-----------------------------------------------------------------------------
(* C13: the header of a valid slice request on axis dim has a shape of two  *)
(* entries, the unpadded sample counts (the cube extents, not the counts    *)
(* padded to whole fragments) of the two axes other than dim in their       *)
(* original order, and its index is the label arrays of the manifest for    *)
(* those two axes in the same order.                                        *)
C13_SliceHeader ==
    (Returned /\ ValidSlice) =>
        LET head    == output[Len(output)]
            kept(k) == IF k - 1 < task.dim THEN k - 1 ELSE k
        IN  /\ Len(head.shape) = 2
            /\ Len(head.index) = 2
            /\ \A k \in 1..2 :
                  /\ head.shape[k] = Len(manifest.dimensions[kept(k) + 1])
                  /\ head.index[k] = manifest.dimensions[kept(k) + 1]

\* a slice on the middle axis; the last axis has three samples in fragments
\* of two, so its padded count is four, and the first axis has two
C13_Witness ==
    /\ Returned
    /\ ValidSlice
    /\ task.dim = 1
    /\ Extent(0) = 2
    /\ Extent(2) = 3
    /\ task.shape[3] = 2
    /\ output[Len(output)].shape = <<2, 3>>

-----------------------------------------------------------------------------
(* C14: the header of a valid curtain request has the shape (ntraces, zpad) *)
(* with ntraces = len(task.dim0s), repeated traces counted, and zpad =      *)
(* fragment_count(axis 2) * shape[2]; index[0] and index[1] are the         *)
(* cartesian indices of task.dim0s and task.dim1s in input order, index[2]  *)
(* is manifest.dimensions[2] unchanged.                                     *)
C14_CurtainHeader ==
    (Returned /\ ValidCurtain) =>
        LET head == output[Len(output)]
        IN  /\ head.shape = << Len(task.dim0s), FragmentsAlong(2) * task.shape[3] >>
            /\ Len(head.index) = 3
            /\ head.index[1] =
                  [k \in 1..Len(task.dim0s) |->
                      PositionOf(manifest.dimensions[1], task.dim0s[k])]
            /\ head.index[2] =
                  [k \in 1..Len(task.dim1s) |->
                      PositionOf(manifest.dimensions[2], task.dim1s[k])]
            /\ head.index[3] = manifest.dimensions[3]

\* two traces on the same line of axis 0, the lines of axis 1 descending;
\* three samples deep in fragments of two, padded to four
C14_Witness ==
    /\ Returned
    /\ ValidCurtain
    /\ Len(task.dim0s) = 2
    /\ task.dim0s[1] = task.dim0s[2]
    /\ task.dim1s[1] > task.dim1s[2]
    /\ Extent(2) = 3
    /\ task.shape[3] = 2
    /\ output[Len(output)].shape = <<2, 4>>

-----------------------------------------------------------------------------
\* the cartesian (x, y) pairs of a valid curtain request, in input order
InputPairs ==
    [ k \in 1..Len(task.dim0s) |->
        << PositionOf(manifest.dimensions[1], task.dim0s[k]),
           PositionOf(manifest.dimensions[2], task.dim1s[k]) >> ]

\* the local pairs of the first n traces that fall in the column of the
\* bucket id, in input order and as often as they occur
LocalPairsOf(id, n) ==
    LET InColumn(p) == /\ p[1] \div task.shape[1] = id[1]
                       /\ p[2] \div task.shape[2] = id[2]
        mine == SelectSeq(SubSeq(InputPairs, 1, n), InColumn)
    IN  [ k \in 1..Len(mine) |->
            << mine[k][1] % task.shape[1], mine[k][2] % task.shape[2] >> ]

\* every bucket holds the local pairs of the first n traces of its column
FilledUpTo(ids, n) ==
    \A k \in 1..Len(ids) : ids[k].coordinates = LocalPairsOf(ids[k].id, n)

(* C15: in the curtain plan each trace i appends its local pair (x_i % s0,  *)
(* y_i % s1) once to each of the fragment_count(axis 2) buckets of its      *)
(* column and to no other bucket, in input order and without dropping       *)
(* repetitions: all buckets of a column carry the same list, as long as the *)
(* number of traces in the column, and no emitted bucket is empty.          *)
C15_CurtainCoordinates ==
    ValidCurtain =>
        LET n == Len(task.dim0s)
        IN  /\ pc = "curtain_phase_b" => FilledUpTo(fetch.ids, i)
            /\ pc = "partition" => FilledUpTo(fetch.ids, n)
            /\ pc \in { "partition_loop", "header" } \/ Returned =>
                  /\ FilledUpTo(part.ids, n)
                  /\ FilledUpTo(EmittedIds(sched), n)
            /\ Returned =>
                  /\ FilledUpTo(EmittedIds(output), n)
                  /\ \A k \in 1..Len(EmittedIds(output)) :
                        EmittedIds(output)[k].coordinates # <<>>

\* the same trace twice, in a column two fragments deep: both buckets carry
\* its local pair twice
C15_Witness ==
    /\ Returned
    /\ ValidCurtain
    /\ Len(task.dim0s) = 2
    /\ InputPairs[1] = InputPairs[2]
    /\ FragmentsAlong(2) = 2
    /\ LET ids == EmittedIds(output)
       IN  /\ Len(ids) = 2
           /\ \A k \in 1..2 :
                 /\ Len(ids[k].coordinates) = 2
                 /\ ids[k].coordinates[1] = ids[k].coordinates[2]

-----------------------------------------------------------------------------
\* the fields of a descriptor or of a task message other than its ids
NonIds(d) == [ common |-> d.common, dim |-> d.dim, lineno |-> d.lineno ]

(* C16: across the task messages of one partition call only the ids differ: *)
(* partition() begins with the descriptor build() made, every iteration     *)
(* leaves all its fields but ids as they were, and appends one message that *)
(* carries exactly those fields (pid, token, guid, storage_endpoint, shape, *)
(* shape_cube, dim and the local lineno), the earlier messages untouched.   *)
C16_PartitionFrame ==
    [][ /\ pc = "partition" /\ pc' = "partition_loop" => fetch' = fetch
        /\ pc = "partition_loop" =>
              /\ NonIds(fetch') = NonIds(fetch)
              /\ fetch'.dim0s = fetch.dim0s
              /\ fetch'.dim1s = fetch.dim1s
              /\ Len(sched') = Len(sched) + 1
              /\ SubSeq(sched', 1, Len(sched)) = sched
              /\ NonIds(sched'[Len(sched')]) = NonIds(fetch)
              /\ \A k \in 1..Len(sched) :
                    NonIds(sched[k]) = NonIds(fetch)
      ]_vars

\* a slice of four fragments went out in three messages that differ in
\* their ids and agree on a local lineno and a cube shape that are set
C16_Witness ==
    /\ Returned
    /\ IsSlice
    /\ Len(output) = 4
    /\ output[1].ids # output[2].ids
    /\ output[1].lineno = 1
    /\ output[1].common.shape_cube # <<>>
    /\ \A k \in 1..3 : NonIds(output[k]) = NonIds(output[1])

-----------------------------------------------------------------------------
\* jobs + task_size - 1 does not fit into an int
Overflows(n, t) == n + t - 1 > IntMax

(* C17: with w-bit signed ints, for every N >= 1 and T >= 1 task_count(N,   *)
(* T) either returns exactly ceil(N / T) or fails; when N + T - 1 overflows *)
(* (wraps modulo 2^w) it never returns a count, and the failure is reported *)
(* as a logic error.                                                        *)
C17_TaskCount ==
    (pc = "done" /\ njobs >= 1 /\ task_size >= 1) =>
        \/ /\ status = "ok"
           /\ ~ Overflows(njobs, task_size)
           /\ part.ntasks = CeilDiv(njobs, task_size)
        \/ /\ status = "logic_error"
           /\ Overflows(njobs, task_size)

\* the same with the failure left open: a count is returned exactly when the
\* sum fits, and then it is ceil(N / T)
TaskCountOrFailure ==
    (pc = "done" /\ njobs >= 1 /\ task_size >= 1) =>
        \/ /\ status = "ok"
           /\ ~ Overflows(njobs, task_size)
           /\ part.ntasks = CeilDiv(njobs, task_size)
        \/ /\ status \in { "runtime_error", "abort" }
           /\ Overflows(njobs, task_size)

\* a count near INT_MAX was returned, no overflow on the way
LargeCountReturned ==
    /\ pc = "done"
    /\ status = "ok"
    /\ njobs > MaxJobs
    /\ task_size = 2
    /\ part.ntasks = (njobs + 1) \div 2

-----------------------------------------------------------------------------
\* the sizes of the three label arrays of the manifest
CubeShape == << Extent(0), Extent(1), Extent(2) >>

(* C18: in every slice fetch descriptor shape_cube is exactly the three     *)
(* label-array sizes of the manifest, also when the request envelope        *)
(* already carries a shape_cube of three entries: three entries, not the    *)
(* entries of the request followed by those of the manifest.                *)
C18_SliceShapeCube ==
    IsSlice =>
        /\ pc \in { "partition", "partition_loop", "header" } \/ Returned
              => fetch.common.shape_cube = CubeShape
        /\ \A k \in 1..Len(TaskMessages(sched)) :
              TaskMessages(sched)[k].common.shape_cube = CubeShape

\* the same for the requests whose envelope carries no shape_cube
SliceShapeCubeFromEmpty ==
    (IsSlice /\ task.shape_cube = <<>>) =>
        /\ pc \in { "partition", "partition_loop", "header" } \/ Returned
              => fetch.common.shape_cube = CubeShape
        /\ \A k \in 1..Len(TaskMessages(sched)) :
              TaskMessages(sched)[k].common.shape_cube = CubeShape

\* a request that carried the cube shape went out with it twice over
SliceShapeCubeDoubled ==
    /\ Returned
    /\ IsSlice
    /\ task.shape_cube = CubeShape
    /\ output[1].common.shape_cube = CubeShape \o CubeShape

-----------------------------------------------------------------------------
\* a curtain request without traces, called with a positive task_size
NoWork == IsCurtain /\ task.dim0s = <<>> /\ task.dim1s = <<>> /\ task_size >= 1

(* C19: a well-formed request that produces no work, a curtain request with *)
(* zero traces and so an empty ids, with task_size >= 1: mkschedule does    *)
(* not fail, it returns a list of exactly one element, the header, with     *)
(* ntasks = 0.                                                              *)
C19_NoWorkHeaderOnly ==
    (Done /\ NoWork) =>
        /\ status = "ok"
        /\ Len(output) = 1
        /\ output[1].message = "header"
        /\ output[1].ntasks = 0

\* what such a call does: it ends in task_count, and nothing is returned
NoWorkFails ==
    (Done /\ NoWork) =>
        /\ status \in { "abort", "runtime_error" }
        /\ fetch.ids = <<>>
        /\ output = <<>>

-----------------------------------------------------------------------------
\* the binary search for the column of trace k lands on its bucket (fx, fy,
\* 0), and the fragment_count(axis 2) buckets from there on lie inside the
\* list and are (fx, fy, 0), ..., (fx, fy, zfrags - 1)
LandsOnColumn(ids, k) ==
    LET fx  == fetch.dim0s[k] \div task.shape[1]
        fy  == fetch.dim1s[k] \div task.shape[2]
        itr == lower_bound_less(ids, <<fx, fy, 0>>)
    IN  /\ itr + FragmentsAlong(2) <= Len(ids)
        /\ \A z \in 0..(FragmentsAlong(2) - 1) :
              ids[itr + 1 + z].id = <<fx, fy, z>>

(* C20: in the curtain plan phase B starts only after phase A has processed *)
(* every trace, and during phase B the bucket list is never resized or      *)
(* reordered: for every input trace the binary search lands on the bucket   *)
(* whose id is exactly (fx, fy, 0), and the fragment_count(axis 2)          *)
(* consecutive buckets from there all lie inside the list and have the ids  *)
(* (fx, fy, 0), ..., (fx, fy, zfrags - 1).                                  *)
C20_PhaseOrder ==
    /\ [](pc = "curtain_phase_b" =>
             \A k \in 1..Len(fetch.dim0s) : LandsOnColumn(fetch.ids, k))
    /\ [][ /\ pc = "curtain_phase_a" /\ pc' = "curtain_phase_b"
                => i + 1 = Len(fetch.dim0s)
           /\ pc = "curtain_phase_b"
                => BucketIds(fetch'.ids) = BucketIds(fetch.ids)
         ]_vars

\* the second loop has filed its first trace; the column of the second
\* trace lies before it in the list, each column two fragments deep
C20_Witness ==
    /\ pc = "curtain_phase_b"
    /\ i = 1
    /\ Len(fetch.dim0s) = 2
    /\ FragmentsAlong(2) = 2
    /\ Len(fetch.ids) = 4
    /\ fetch.ids[1].coordinates = <<>>
    /\ fetch.ids[3].coordinates # <<>>
    /\ LandsOnColumn(fetch.ids, 2)

====
